---- MODULE Spec2Model ----
(***************************************************************************)
(* Model of the expense tracker in                                         *)
(*   src/rust/roadmap.sh/projects/expense-tracker/src/main.rs              *)
(*                                                                         *)
(* The program keeps all of its state in one file, datastore.json.  Each   *)
(* invocation runs init_datastore and then one of add_expense,             *)
(* delete_expense, list_expenses; every one of these reads the whole file, *)
(* works on the decoded Vec<Expense> and (for add/delete) writes the whole *)
(* file back.  The functions are modelled one action each; four            *)
(* specifications share them:                                              *)
(*   Spec      sequential calls, starting from datastores the program      *)
(*             itself can produce from a fresh datastore;                  *)
(*   SpecAny   sequential calls, starting from any content of the file     *)
(*             (hand-edited, malformed, unreadable);                       *)
(*   SpecRT    write_expenses followed by read_expenses on arbitrary       *)
(*             in-memory sequences;                                        *)
(*   SpecConc  two invocations whose file operations interleave.           *)
(*                                                                         *)
(* Writes are assumed to succeed (a failing write panics in the code; no   *)
(* statement checked here is about it).                                    *)
(***************************************************************************)
EXTENDS Integers, Sequences, FiniteSets, TLC

VARIABLES
    file,            \* content of DATASTORE_PATH
    out,             \* what the last call printed
    status,          \* "ok": the last call returned; "panic": it panicked
    lastOp,          \* the last call and its arguments
    prevOp,          \* the name of the call before it
    ops,             \* number of calls made so far
    serial,          \* history: number of records created so far
    retired,         \* history: ids removed by delete_expense so far
    overflowChecks,  \* build profile: TRUE = overflow panics (debug), FALSE = wraps (release)
    mem,             \* SpecRT: the slice handed to write_expenses
    back,            \* SpecRT: what read_expenses returned afterwards
    pc,              \* SpecConc: position of each invocation
    cmd,             \* SpecConc: command line of each invocation
    loc              \* SpecConc: local `expenses` of each invocation

vars == <<file, out, status, lastOp, prevOp, ops, serial, retired, overflowChecks,
          mem, back, pc, cmd, loc>>

-----------------------------------------------------------------------------
(* Bounds and input domains *)

\* A u32 is kept at its full width as two 16-bit limbs, hi * 65536 + lo
\* (the model checker's own integers are narrower than a u32).
Radix == 65536

\* number of calls in one behaviour
MaxOps == 3

\* number of records in an initial datastore
MaxSeed == 2

Descriptions == {"Coffee", "Book"}

\* f64 values, finite ones in thousandths (3500 is 3.5); the CLI's f64 parser
\* (str::parse::<f64>) also accepts "NaN" and "inf".
Finite(v) == [cls |-> "finite", v |-> v]
NaN == [cls |-> "nan", v |-> 0]
FiniteAmounts == {Finite(3500), Finite(-1234)}
Amounts == FiniteAmounts \cup {NaN}

U32(hi, lo) == [hi |-> hi, lo |-> lo]
Zero == U32(0, 0)
U32Max == U32(Radix - 1, Radix - 1)
Less(a, b) == a.hi < b.hi \/ (a.hi = b.hi /\ a.lo < b.lo)

\* b = a + 1 as integers; no b for a = U32Max
IsSucc(a, b) ==
    \/ a.lo < Radix - 1 /\ b = U32(a.hi, a.lo + 1)
    \/ a.lo = Radix - 1 /\ a.hi < Radix - 1 /\ b = U32(a.hi + 1, 0)

\* a + 1 on u32 when the addition wraps (overflow checks off)
wrapping_inc(a) ==
    IF a.lo < Radix - 1 THEN U32(a.hi, a.lo + 1)
    ELSE IF a.hi < Radix - 1 THEN U32(a.hi + 1, 0)
    ELSE Zero

IdSample == {U32(0, 1), U32(0, 2), U32Max}
DeleteIds == {Zero, U32(0, 1), U32(0, 2), U32Max}

-----------------------------------------------------------------------------
(* Data *)

\* struct Expense; n is a history field (the order of creation), which no
\* operation of the program reads.
Expense(id, description, amount, n) ==
    [id |-> id, description |-> description, amount |-> amount, n |-> n]

Ok(v) == [ok |-> TRUE, val |-> v]
Err == [ok |-> FALSE, val |-> <<>>]

\* Content of the file.  kind: "absent" (no such path), "unreadable" (the
\* path exists, read_to_string fails), "malformed" (text that is no JSON
\* array of expenses, the empty text included), "json" (a JSON array of
\* objects).  ws: the text is not in serde_json's compact form (whitespace,
\* field order).
File(kind, ws, items) == [kind |-> kind, ws |-> ws, items |-> items]
Absent == File("absent", FALSE, <<>>)
Unreadable == File("unreadable", FALSE, <<>>)
Malformed == File("malformed", FALSE, <<>>)

\* serde_json's serialize_f64: a finite value as a number, NaN and the
\* infinities as null.
to_json_amount(a) ==
    IF a.cls = "finite" THEN [j |-> "num", v |-> a.v] ELSE [j |-> "null", v |-> 0]

to_string(expenses) ==
    [i \in 1..Len(expenses) |->
        [id |-> expenses[i].id, description |-> expenses[i].description,
         amount |-> to_json_amount(expenses[i].amount), n |-> expenses[i].n]]

\* serde_json::from_str::<Vec<Expense>>: fails on text that is no array of
\* expense objects and on an amount that is null.
from_str(f) ==
    IF /\ f.kind = "json"
       /\ \A i \in 1..Len(f.items) : f.items[i].amount.j = "num"
    THEN Ok([i \in 1..Len(f.items) |->
                Expense(f.items[i].id, f.items[i].description,
                        Finite(f.items[i].amount.v), f.items[i].n)])
    ELSE Err

\* a read that takes a missing file for an empty datastore
read_expenses_lenient(f) ==
    IF f.kind = "unreadable" THEN Err
    ELSE IF f.kind = "absent" THEN Ok(<<>>) ELSE from_str(f)

read_expenses(f) ==
    IF f.kind \in {"absent", "unreadable"} THEN Err ELSE from_str(f)

\* a write that appends to the content instead of replacing it
write_expenses_append(f, expenses) ==
    File("json", FALSE, (IF f.kind = "json" THEN f.items ELSE <<>>) \o to_string(expenses))

\* std::fs::write replaces the whole content f of the file.
write_expenses(f, expenses) == File("json", FALSE, to_string(expenses))

MaxOf(S) ==
    IF S = {} THEN Zero
    ELSE CHOOSE y \in S : \A z \in S : z = y \/ Less(z, y)

Ids(expenses) == {expenses[i].id : i \in 1..Len(expenses)}

\* expenses.iter().map(|e| e.id).max().unwrap_or(0)
max_id(expenses) == MaxOf(Ids(expenses))

\* an id allocator that fills the first gap instead of taking max + 1
next_id_first_free(expenses) ==
    LET k == CHOOSE k \in 1..Len(expenses) + 1 :
                 /\ U32(0, k) \notin Ids(expenses)
                 /\ \A j \in 1..k - 1 : U32(0, j) \in Ids(expenses)
    IN U32(0, k)

\* `... + 1` on u32: the value when the addition does not panic
next_id(expenses) == wrapping_inc(max_id(expenses))

\* expenses.retain(|expense| expense.id != id)
retain(expenses, id) == SelectSeq(expenses, LAMBDA e : e.id # id)

\* format!("{:.2}", amount) for a finite amount in thousandths (the domain
\* holds no value exactly between two hundredths)
Fmt2(a) ==
    LET abs == IF a.v < 0 THEN -a.v ELSE a.v
        c == (abs + 5) \div 10
    IN [neg |-> a.v < 0 /\ c > 0, whole |-> c \div 100, cents |-> c % 100]

\* the early return of delete_expense dropped
not_found_never(original_len, expenses) == FALSE

\* expenses.len() == original_len
not_found(original_len, expenses) == Len(expenses) = original_len

\* the table filled back to front
rows_reversed(expenses) ==
    [i \in 1..Len(expenses) |->
        [id |-> expenses[Len(expenses) + 1 - i].id,
         description |-> expenses[Len(expenses) + 1 - i].description,
         amount |-> Fmt2(expenses[Len(expenses) + 1 - i].amount)]]

\* one table row per expense, in the order of the Vec
rows(expenses) ==
    [i \in 1..Len(expenses) |->
        [id |-> expenses[i].id, description |-> expenses[i].description,
         amount |-> Fmt2(expenses[i].amount)]]

Said(msg, id, table) == [msg |-> msg, id |-> id, rows |-> table]
Call(op, id, description, amount) ==
    [op |-> op, id |-> id, description |-> description, amount |-> amount]

-----------------------------------------------------------------------------
(* The functions, called one at a time *)

Step(op, id, description, amount) ==
    /\ ops < MaxOps
    /\ ops' = ops + 1
    /\ lastOp' = Call(op, id, description, amount)
    /\ prevOp' = lastOp.op
    /\ UNCHANGED <<overflowChecks, mem, back, pc, cmd, loc>>

\* an init that creates (and so truncates) the file whether or not it exists
init_file_always(f) == File("json", FALSE, <<>>)

\* the file after init_datastore: created with the content [] when absent
init_file(f) == IF f.kind = "absent" THEN File("json", FALSE, <<>>) ELSE f

init_datastore ==
    /\ Step("init", Zero, "", Finite(0))
    /\ file' = init_file(file)
    /\ out' = IF file.kind = "absent"
              THEN Said("Datastore initialized at", Zero, <<>>)
              ELSE Said("Reading from datastore at", Zero, <<>>)
    /\ status' = "ok"
    /\ UNCHANGED <<serial, retired>>

ReadPanic ==
    /\ out' = Said("Failed to read from datastore", Zero, <<>>)
    /\ status' = "panic"
    /\ UNCHANGED <<file, serial, retired>>

add_expense(description, amount) ==
    /\ Step("add", Zero, description, amount)
    /\ LET r == read_expenses(file) IN
       IF ~r.ok THEN ReadPanic
       ELSE IF max_id(r.val) = U32Max /\ overflowChecks
       THEN /\ out' = Said("attempt to add with overflow", Zero, <<>>)
            /\ status' = "panic"
            /\ UNCHANGED <<file, serial, retired>>
       ELSE LET id == next_id(r.val)
                expenses == Append(r.val, Expense(id, description, amount, serial + 1))
            IN /\ file' = write_expenses(file, expenses)
               /\ out' = Said("Expense added successfully with ID", id, <<>>)
               /\ status' = "ok"
               /\ serial' = serial + 1
               /\ UNCHANGED retired

delete_expense(id) ==
    /\ Step("delete", id, "", Finite(0))
    /\ LET r == read_expenses(file) IN
       IF ~r.ok THEN ReadPanic
       ELSE LET expenses == retain(r.val, id) IN
            IF not_found(Len(r.val), expenses)
            THEN /\ out' = Said("No expense found with ID", id, <<>>)
                 /\ status' = "ok"
                 /\ UNCHANGED <<file, serial, retired>>
            ELSE /\ file' = write_expenses(file, expenses)
                 /\ out' = Said("Expense deleted successfully", id, <<>>)
                 /\ status' = "ok"
                 /\ retired' = retired \cup (Ids(r.val) \cap {id})
                 /\ UNCHANGED serial

list_expenses ==
    /\ Step("list", Zero, "", Finite(0))
    /\ LET r == read_expenses(file) IN
       IF ~r.ok THEN ReadPanic
       ELSE /\ out' = IF r.val = <<>>
                      THEN Said("No expenses found", Zero, <<>>)
                      ELSE Said("table", Zero, rows(r.val))
            /\ status' = "ok"
            /\ UNCHANGED <<file, serial, retired>>

Next ==
    \/ init_datastore
    \/ \E d \in Descriptions, a \in Amounts : add_expense(d, a)
    \/ \E id \in DeleteIds : delete_expense(id)
    \/ list_expenses

-----------------------------------------------------------------------------
(* Initial states *)

SeqsOver(S) == UNION {[1..k -> S] : k \in 0..MaxSeed}

\* Datastores the program produces from a fresh one: add assigns ids in
\* increasing order and delete removes any of them, so every sequence with
\* strictly increasing ids (up to U32Max) is produced by adds followed by
\* deletes of the ids left out.
SeedRecords ==
    {Expense(id, d, Finite(3500), n) : id \in IdSample, d \in Descriptions, n \in 1..MaxSeed}
ProducedSeqs ==
    {s \in SeqsOver(SeedRecords) :
        /\ \A i \in 1..Len(s) : s[i].n = i
        /\ \A i \in 1..Len(s) - 1 : Less(s[i].id, s[i + 1].id)}
ProducedFiles == {Absent} \cup {write_expenses(Absent, s) : s \in ProducedSeqs}

\* Any content of the file: absent, unreadable, malformed, or a JSON array in
\* any layout, with repeated ids and null amounts.
AnyItems ==
    {[id |-> id, description |-> "Coffee", amount |-> a, n |-> n] :
        id \in {U32(0, 1), U32Max},
        a \in {[j |-> "num", v |-> 3500], [j |-> "null", v |-> 0]},
        n \in 1..MaxSeed}
AnyFiles ==
    {Absent, Unreadable, Malformed} \cup
    {File("json", ws, s) : ws \in BOOLEAN,
        s \in {t \in SeqsOver(AnyItems) : \A i \in 1..Len(t) : t[i].n = i}}

InitSeq ==
    /\ out = Said("", Zero, <<>>)
    /\ status = "ok"
    /\ lastOp = Call("none", Zero, "", Finite(0))
    /\ prevOp = "none"
    /\ ops = 0
    /\ serial = (IF file.kind = "json" THEN Len(file.items) ELSE 0)
    /\ retired = {}
    /\ overflowChecks \in BOOLEAN
    /\ mem = <<>>
    /\ back = Err
    /\ pc = <<>>
    /\ cmd = <<>>
    /\ loc = <<>>

Init ==
    /\ file \in ProducedFiles
    /\ InitSeq

InitAny ==
    /\ file \in AnyFiles
    /\ InitSeq

Spec == Init /\ [][Next]_vars

SpecAny == InitAny /\ [][Next]_vars

-----------------------------------------------------------------------------
(* Properties of the sequential calls *)

Pre == read_expenses(file)
Called(op) == lastOp'.op = op /\ ops' = ops + 1

\* reading the file fails: missing, unreadable, or not decodable
ReadFails(f) ==
    \/ f.kind \in {"absent", "unreadable", "malformed"}
    \/ \E i \in 1..Len(f.items) : f.items[i].amount.j = "null"

RemoveAt(s, k) == SubSeq(s, 1, k - 1) \o SubSeq(s, k + 1, Len(s))

\* C1: the ids of the records in the datastore are pairwise distinct.
C1_IdsDistinct ==
    \A i, j \in 1..Len(file.items) : i # j => file.items[i].id # file.items[j].id

\* C2: on a readable datastore, add assigns max + 1 (1 when empty); the new
\* record carries the supplied description and amount and is appended last,
\* the stored records staying as they were.
C2_AddAssignsMaxPlusOne ==
    [][(Called("add") /\ ~ReadFails(file)) =>
         /\ status' = "ok"
         /\ IsSucc(MaxOf(Ids(Pre.val)), out'.id)
         /\ ~ReadFails(file')
         /\ Pre'.val = Append(Pre.val,
                Expense(out'.id, lastOp'.description, lastOp'.amount, serial'))]_vars

\* C3: deleting an id that is present removes exactly one record, the one
\* with that id; the others stay, unchanged and in order; the result is
\* written back.
C3_DeleteRemovesExactlyOne ==
    [][(Called("delete") /\ ~ReadFails(file) /\ lastOp'.id \in Ids(Pre.val)) =>
         /\ status' = "ok"
         /\ ~ReadFails(file')
         /\ Len(Pre'.val) = Len(Pre.val) - 1
         /\ \E k \in 1..Len(Pre.val) :
              Pre.val[k].id = lastOp'.id /\ Pre'.val = RemoveAt(Pre.val, k)
         /\ file' = File("json", FALSE, file'.items)]_vars

\* C4: deleting an id that is not present writes nothing: the content of the
\* file is what it was, the call reports "No expense found with ID: <id>"
\* and returns normally.
C4_DeleteAbsentNoWrite ==
    [][(Called("delete") /\ ~ReadFails(file) /\ lastOp'.id \notin Ids(Pre.val)) =>
         /\ file' = file
         /\ out' = Said("No expense found with ID", lastOp'.id, <<>>)
         /\ status' = "ok"]_vars

C4_Witness ==
    /\ lastOp.op = "delete"
    /\ out.msg = "No expense found with ID"
    /\ file.kind = "json" /\ file.ws /\ file.items # <<>>

\* C5 (as claimed): an add never assigns an id that was deleted before.
C5_DeletedIdsNeverReused ==
    [][(Called("add") /\ status' = "ok") => out'.id \notin retired]_vars

\* C5 (amended): an add assigns a deleted id only when that id is greater
\* than every id stored at that time, or when it is 0 after the addition
\* wrapped at the largest u32.
C5_ReuseOnlyAboveMax ==
    [][(Called("add") /\ status' = "ok" /\ out'.id \in retired) =>
         \/ \A i \in 1..Len(file.items) : Less(file.items[i].id, out'.id)
         \/ /\ out'.id = Zero
            /\ \E i \in 1..Len(file.items) : file.items[i].id = U32Max]_vars

C5_Witness ==
    /\ lastOp.op = "add" /\ status = "ok" /\ out.id \in retired
    /\ Len(file.items) >= 2

\* C6: init leaves an existing file as it is, whatever it holds, and creates
\* an absent one with the content []; a second init changes nothing.
C6_InitIdempotent ==
    [][Called("init") =>
         /\ status' = "ok"
         /\ file' = (IF file.kind = "absent" THEN File("json", FALSE, <<>>) ELSE file)
         /\ (lastOp.op = "init" => file' = file)]_vars

C6_Witness ==
    /\ lastOp.op = "init" /\ prevOp = "init"
    /\ file.kind = "json" /\ file.ws /\ ReadFails(file)

\* C7: when reading the datastore fails, add, delete and list panic with a
\* diagnostic before any write: the content stays and no success is reported.
C7_ReadFailurePanics ==
    [][((Called("add") \/ Called("delete") \/ Called("list")) /\ ReadFails(file)) =>
         /\ status' = "panic"
         /\ out' = Said("Failed to read from datastore", Zero, <<>>)
         /\ file' = file]_vars

C7_Witness ==
    /\ lastOp.op \in {"add", "delete", "list"}
    /\ status = "panic"
    /\ file.kind = "absent"

\* C10: list prints one row per stored expense in the order of the file,
\* which is the order in which the surviving records were created; on an
\* empty datastore it prints "No expenses found" and no table; it never
\* changes the file.
C10_ListInInsertionOrder ==
    [][(Called("list") /\ ~ReadFails(file)) =>
         /\ file' = file
         /\ status' = "ok"
         /\ IF file.items = <<>>
            THEN out' = Said("No expenses found", Zero, <<>>)
            ELSE /\ out'.msg = "table"
                 /\ Len(out'.rows) = Len(file.items)
                 /\ \A i \in 1..Len(file.items) :
                      /\ out'.rows[i].id = file.items[i].id
                      /\ out'.rows[i].description = file.items[i].description
                 /\ \A i, j \in 1..Len(file.items) :
                      i < j => file.items[i].n < file.items[j].n]_vars

C10_Witness ==
    /\ lastOp.op = "list" /\ Len(out.rows) >= 2
    /\ retired # {} /\ serial > MaxSeed
    /\ out.rows[Len(out.rows)].description # out.rows[1].description

-----------------------------------------------------------------------------
(* The persistence layer alone: write_expenses, then read_expenses *)

RTRecords ==
    {Expense(id, d, a, n) :
        id \in {U32(0, 1), U32(0, 2)}, d \in Descriptions, a \in Amounts, n \in 1..MaxSeed}
RTSeqs == {s \in SeqsOver(RTRecords) : \A i \in 1..Len(s) : s[i].n = i}
RTFiles == {f \in AnyFiles : Len(f.items) <= 1}

InitRT ==
    /\ file \in RTFiles
    /\ mem \in RTSeqs
    /\ back = Err
    /\ status = "start"
    /\ out = Said("", Zero, <<>>)
    /\ lastOp = Call("none", Zero, "", Finite(0))
    /\ prevOp = "none"
    /\ ops = 0
    /\ serial = 0
    /\ retired = {}
    /\ overflowChecks = FALSE
    /\ pc = <<>>
    /\ cmd = <<>>
    /\ loc = <<>>

WriteExpenses ==
    /\ status = "start"
    /\ file' = write_expenses(file, mem)
    /\ status' = "written"
    /\ UNCHANGED <<out, lastOp, prevOp, ops, serial, retired, overflowChecks,
                   mem, back, pc, cmd, loc>>

ReadExpenses ==
    /\ status = "written"
    /\ back' = read_expenses(file)
    /\ status' = "read"
    /\ UNCHANGED <<file, out, lastOp, prevOp, ops, serial, retired, overflowChecks,
                   mem, pc, cmd, loc>>

NextRT == WriteExpenses \/ ReadExpenses

SpecRT == InitRT /\ [][NextRT]_vars

\* C8: write_expenses followed by read_expenses on the same path returns a
\* sequence equal to the one written, and the write replaces the previous
\* content.
C8_RoundTrip ==
    status = "read" =>
        /\ back.ok
        /\ back.val = mem
        /\ Len(file.items) = Len(mem)

-----------------------------------------------------------------------------
(* Two invocations of the program whose file operations interleave *)

Procs == {1, 2}

Commands ==
    {Call("add", Zero, "Coffee", Finite(3500)),
     Call("add", Zero, "Book", Finite(-1234)),
     Call("delete", U32(0, 1), "", Finite(0))}

ConcFiles == {f \in ProducedFiles : Len(f.items) <= 1}

Local(exists, base, expenses, id, msg) ==
    [exists |-> exists, base |-> base, expenses |-> expenses, id |-> id, msg |-> msg]

InitConc ==
    /\ file \in ConcFiles
    /\ overflowChecks \in BOOLEAN
    /\ cmd \in [Procs -> Commands]
    /\ pc = [p \in Procs |-> "main"]
    /\ loc = [p \in Procs |-> Local(FALSE, <<>>, <<>>, Zero, "")]
    /\ out = Said("", Zero, <<>>)
    /\ status = "ok"
    /\ lastOp = Call("none", Zero, "", Finite(0))
    /\ prevOp = "none"
    /\ ops = 0
    /\ serial = 0
    /\ retired = {}
    /\ mem = <<>>
    /\ back = Err

ConcFrame == UNCHANGED <<out, status, lastOp, prevOp, ops, serial, retired,
                         overflowChecks, mem, back, cmd>>

Goto(p, label, l) ==
    /\ pc' = [pc EXCEPT ![p] = label]
    /\ loc' = [loc EXCEPT ![p] = l]

\* init_datastore: Path::new(path).exists()
path_exists(p) ==
    /\ pc[p] = "main"
    /\ Goto(p, "init", [loc[p] EXCEPT !.exists = file.kind # "absent"])
    /\ UNCHANGED file
    /\ ConcFrame

\* init_datastore: File::create(path)?.write_all(b"[]") when the path did
\* not exist at the check
create_datastore(p) ==
    /\ pc[p] = "init"
    /\ file' = IF loc[p].exists THEN file ELSE File("json", FALSE, <<>>)
    /\ Goto(p, "read", loc[p])
    /\ ConcFrame

\* add_expense / delete_expense up to the call of write_expenses
read_and_update(p) ==
    /\ pc[p] = "read"
    /\ LET r == read_expenses(file) IN
       IF ~r.ok
       THEN Goto(p, "panicked", [loc[p] EXCEPT !.msg = "Failed to read from datastore"])
       ELSE IF cmd[p].op = "add"
       THEN IF max_id(r.val) = U32Max /\ overflowChecks
            THEN Goto(p, "panicked", [loc[p] EXCEPT !.msg = "attempt to add with overflow"])
            ELSE LET id == next_id(r.val) IN
                 Goto(p, "write",
                      Local(loc[p].exists, r.val,
                            Append(r.val, Expense(id, cmd[p].description, cmd[p].amount, 0)),
                            id, ""))
       ELSE LET expenses == retain(r.val, cmd[p].id) IN
            IF not_found(Len(r.val), expenses)
            THEN Goto(p, "done",
                      Local(loc[p].exists, r.val, expenses, cmd[p].id,
                            "No expense found with ID"))
            ELSE Goto(p, "write", Local(loc[p].exists, r.val, expenses, cmd[p].id, ""))
    /\ UNCHANGED file
    /\ ConcFrame

\* write_expenses, std::fs::write: the file is opened truncated ...
truncate_file(p) ==
    /\ pc[p] = "write"
    /\ file' = Malformed
    /\ Goto(p, "write_all", loc[p])
    /\ ConcFrame

\* ... and the encoded sequence written; then the success message
write_all(p) ==
    /\ pc[p] = "write_all"
    /\ file' = write_expenses(file, loc[p].expenses)
    /\ Goto(p, "done",
            [loc[p] EXCEPT !.msg = IF cmd[p].op = "add"
                                   THEN "Expense added successfully with ID"
                                   ELSE "Expense deleted successfully"])
    /\ ConcFrame

NextConc ==
    \E p \in Procs :
        \/ path_exists(p)
        \/ create_datastore(p)
        \/ read_and_update(p)
        \/ truncate_file(p)
        \/ write_all(p)

SpecConc == InitConc /\ [][NextConc]_vars

Succeeded(p) ==
    /\ pc[p] = "done"
    /\ loc[p].msg \in {"Expense added successfully with ID", "Expense deleted successfully"}

\* C9: two overlapping read-modify-write invocations lose an update: when
\* both report success after having read the same content, the file holds
\* what one of them wrote from that content, without the other's update,
\* and two such adds report the same id.
C9_LostUpdate ==
    (Succeeded(1) /\ Succeeded(2) /\ loc[1].base = loc[2].base) =>
        /\ \E p \in Procs : file = File("json", FALSE, to_string(loc[p].expenses))
        /\ (cmd[1].op = "add" /\ cmd[2].op = "add") =>
              /\ loc[1].id = loc[2].id
              /\ Len(file.items) = Len(loc[1].base) + 1

C9_Witness ==
    /\ Succeeded(1) /\ Succeeded(2)
    /\ loc[1].base = loc[2].base
    /\ cmd[1].op = "add" /\ cmd[2].op = "add"
    /\ cmd[1].description # cmd[2].description
    /\ loc[1].id = loc[2].id
    /\ Len(file.items) = Len(loc[1].base) + 1

====
